---- MODULE Spec2Model ----
(***************************************************************************)
(* Background shell tasks: the fetch-output adapter (bash-output tool),    *)
(* the terminate adapter (kill-shell tool) and the background task manager *)
(* they delegate to.  The two adapters are translated from their source;   *)
(* the manager (services/backgroundTaskManager) is modelled from its       *)
(* written contract.                                                       *)
(***************************************************************************)
EXTENDS Integers, Sequences, FiniteSets, TLC

VARIABLES tasks, req

vars == <<tasks, req>>

(* ----------------------------- bounds ---------------------------------- *)

\* Longest output buffer explored.
MaxLines == 3

(* ----------------------------- inputs ---------------------------------- *)

\* Concurrent callers of the tools; each has at most one request in flight.
\* Both may terminate tasks, so that kills race; one of them also reads output.
Callers == {"c1", "c2"}
FetchCallers == {"c1"}
KillCallers == {"c1", "c2"}

\* Identifiers the registry hands out.
TaskIds == {"t1"}

\* Identifiers a caller may pass: a registry id (known or not yet known),
\* the empty string and a whitespace-only string (blank after trim()).
BlankIds == {"", " "}
ParamIds == TaskIds \cup BlankIds

Commands == {"npm run dev"}

ExitCodes == {0, 3}

alpha == <<"a", "l", "p", "h", "a">>
beta == <<"b", "e", "t", "a">>
gamma == <<"g", "a", "m", "m", "a">>

\* Text lines a process may print.
Lines == {alpha, beta, gamma}

\* filter absent (undefined or ""): both are falsy in `if (this.params.filter)`.
NoFilter == <<>>
TrailingA == <<"a", "$">>
GroupADot == <<"(", "a", ".", ")">>
OpenParen == <<"(">>

Filters == {NoFilter, TrailingA, GroupADot, OpenParen}

NoPid == "undefined"
NoDetails == [type |-> "none", title |-> "", command |-> "", rootCommand |-> ""]

(* ------------------------ regular expressions --------------------------- *)

RECURSIVE ParenDepth(_, _, _)
\* Depth of open groups after reading p[i..]; -1 once a ")" has no partner.
ParenDepth(p, i, d) ==
    IF d < 0 THEN d
    ELSE IF i > Len(p) THEN d
    ELSE IF p[i] = "(" THEN ParenDepth(p, i + 1, d + 1)
    ELSE IF p[i] = ")" THEN ParenDepth(p, i + 1, d - 1)
    ELSE ParenDepth(p, i + 1, d)

\* new RegExp(p) succeeds: every group is closed and every ")" has a partner.
Compiles(p) == ParenDepth(p, 1, 0) = 0

IsParen(ch) == ch \in {"(", ")"}

\* The atoms of a compiled pattern: groups without alternation or
\* quantifier match exactly what their content matches.
Atoms(p) == SelectSeq(p, LAMBDA ch : ~IsParen(ch))

RECURSIVE MatchAt(_, _, _, _)
\* atoms[i..] match line starting at position pos.
MatchAt(atoms, i, line, pos) ==
    IF i > Len(atoms) THEN TRUE
    ELSE IF atoms[i] = "^" THEN pos = 1 /\ MatchAt(atoms, i + 1, line, pos)
    ELSE IF atoms[i] = "$"
        THEN pos = Len(line) + 1 /\ MatchAt(atoms, i + 1, line, pos)
    ELSE IF pos > Len(line) THEN FALSE
    ELSE IF atoms[i] = "." THEN MatchAt(atoms, i + 1, line, pos + 1)
    ELSE line[pos] = atoms[i] /\ MatchAt(atoms, i + 1, line, pos + 1)

\* regex.test(line) of a regex without flags: an unanchored search.
RegexTest(p, line) ==
    \E pos \in 1..(Len(line) + 1) : MatchAt(Atoms(p), 1, line, pos)

(* --------------------------- task manager ------------------------------ *)

HasTask(id) == id \in DOMAIN tasks

Terminal == {"completed", "failed", "killed"}
Statuses == {"running"} \cup Terminal

\* OutputBuffer.read(offset): the lines at positions >= offset, a negative
\* offset read as 0.
BufferRead(buf, offset) ==
    LET from == IF offset < 0 THEN 0 ELSE offset
    IN IF from >= Len(buf) THEN <<>> ELSE SubSeq(buf, from + 1, Len(buf))

\* BackgroundTaskManager.getTask(id): the task record, or not found.
GetTask(id) ==
    IF HasTask(id) THEN [found |-> TRUE, task |-> tasks[id]]
    ELSE [found |-> FALSE]

\* BackgroundTaskManager.getOutput(id, offset): the buffered lines from
\* offset on, or not found (undefined) for an unknown id.
GetOutput(id, offset) ==
    IF HasTask(id)
    THEN [found |-> TRUE, lines |-> BufferRead(tasks[id].output, offset)]
    ELSE [found |-> FALSE, lines |-> <<>>]

\* Variant: a terminal transition taken from any status.
MayTransitionAlways(status) == TRUE

\* A terminal transition is exclusive: it is taken only from `running`.
MayTransition(status) == status = "running"

\* BackgroundTaskManager.killTask(id): the outcomes the awaited call can
\* settle with, each with the task table it leaves.
\*   - unknown id, or a task no longer running: false, nothing changes;
\*   - running, process still live: the signal is delivered, the status
\*     becomes killed, true; the process then dies of the signal (143);
\*   - running, process already gone (its exit not yet recorded): false;
\*   - an unexpected failure while signalling: the call rejects.
KillTask(id) ==
    IF ~HasTask(id) THEN {[ret |-> "false", tasks |-> tasks]}
    ELSE IF ~MayTransition(tasks[id].status)
        THEN {[ret |-> "false", tasks |-> tasks]}
    ELSE IF tasks[id].alive
        THEN {[ret |-> "true",
               tasks |-> [tasks EXCEPT ![id].status = "killed",
                                       ![id].alive = FALSE,
                                       ![id].osExit = <<143>>]],
              [ret |-> "throw", tasks |-> tasks]}
    ELSE {[ret |-> "false", tasks |-> tasks],
          [ret |-> "throw", tasks |-> tasks]}

\* startTask(command): the process is spawned and the task registered as
\* running under a fresh id.
StartTask(id, command) ==
    /\ ~HasTask(id)
    /\ tasks' = tasks @@ (id :> [command |-> command, pid |-> "4242",
                                 status |-> "running", exitCode |-> <<>>,
                                 output |-> <<>>, alive |-> TRUE,
                                 osExit |-> <<>>])
    /\ UNCHANGED req

\* startTask(command) when the OS refuses to create the process: the task is
\* registered directly as failed, without a pid.
SpawnFail(id, command) ==
    /\ ~HasTask(id)
    /\ tasks' = tasks @@ (id :> [command |-> command, pid |-> NoPid,
                                 status |-> "failed", exitCode |-> <<>>,
                                 output |-> <<>>, alive |-> FALSE,
                                 osExit |-> <<>>])
    /\ UNCHANGED req

\* A capture routine appends one completed line to the task's buffer.  The
\* streams of a spawned process may still deliver data after its exit.
Capture(id, line) ==
    /\ HasTask(id)
    /\ tasks[id].pid # NoPid
    /\ Len(tasks[id].output) < MaxLines
    /\ tasks' = [tasks EXCEPT ![id].output = Append(@, line)]
    /\ UNCHANGED req

\* The process ends on its own with an exit code.
ProcessExit(id, code) ==
    /\ HasTask(id)
    /\ tasks[id].alive
    /\ tasks' = [tasks EXCEPT ![id].alive = FALSE, ![id].osExit = <<code>>]
    /\ UNCHANGED req

\* The exit watcher observes the end of the process and records it:
\* running -> completed | failed with the exit code.  A task that already
\* left `running` (it was killed) keeps its status.
ExitWatcher(id) ==
    /\ HasTask(id)
    /\ tasks[id].osExit # <<>>
    /\ tasks' = IF MayTransition(tasks[id].status)
                THEN [tasks EXCEPT
                        ![id].status = IF tasks[id].osExit[1] = 0
                                       THEN "completed" ELSE "failed",
                        ![id].exitCode = tasks[id].osExit,
                        ![id].osExit = <<>>]
                ELSE [tasks EXCEPT ![id].osExit = <<>>]
    /\ UNCHANGED req

(* ----------------------- requests and results --------------------------- *)

NoResult ==
    [kind |-> "none", status |-> "", command |-> "", pid |-> NoPid,
     buffered |-> 0, filtered |-> FALSE, matched |-> 0, output |-> <<>>]

\* A caller with no request in flight.
IdleReq ==
    [tool |-> "none", id |-> "", filter |-> NoFilter, pc |-> "idle",
     details |-> NoDetails, confirm |-> "none", existed |-> FALSE,
     seen |-> "none",
     killCalls |-> 0, killRet |-> "none", reads |-> 0, result |-> NoResult]

Done(r, result) == [r EXCEPT !.pc = "done", !.result = result]

(* ------------------------ fetch-output adapter -------------------------- *)

\* Variant: validation that checks the id only, not the filter.
BashOutputValidateIdOnly(id, filter) ==
    IF id \in BlankIds THEN "bash_id_required" ELSE "ok"

\* BashOutputTool.validateToolParamValues: null ("ok") or the error.
BashOutputValidate(id, filter) ==
    IF id \in BlankIds THEN "bash_id_required"
    ELSE IF filter # NoFilter /\ ~Compiles(filter) THEN "invalid_regex_pattern"
    ELSE "ok"

\* Variant: an empty array taken for a missing one.
OutputMissingOrEmpty(allOutput) == ~allOutput.found \/ allOutput.lines = <<>>

\* `!allOutput`: getOutput gave undefined; an array, even empty, is truthy.
OutputMissing(allOutput) == ~allOutput.found

\* Variant: the read starts one line late.
AllOutputFromOne(id) == GetOutput(id, 1)

\* taskManager.getOutput(this.params.bash_id, 0): all output of the task.
AllOutput(id) == GetOutput(id, 0)

\* Variant: the filter keeps the lines that do not match.
FilterLinesInverted(allOutput, filter) ==
    SelectSeq(allOutput, LAMBDA line : ~RegexTest(filter, line))

\* allOutput.filter((line) => regex.test(line))
FilterLines(allOutput, filter) ==
    SelectSeq(allOutput, LAMBDA line : RegexTest(filter, line))

\* BashOutputInvocation.execute: the result and the number of getOutput calls.
BashOutputExecute(id, filter) ==
    LET found == GetTask(id)
    IN IF ~found.found
       THEN [result |-> [NoResult EXCEPT !.kind = "not_found"], reads |-> 0]
       ELSE
       LET task == found.task
           allOutput == AllOutput(id)
       IN IF OutputMissing(allOutput)
          THEN [result |-> [NoResult EXCEPT !.kind = "read_failed"],
                reads |-> 1]
          ELSE IF filter # NoFilter /\ ~Compiles(filter)
          THEN [result |-> [NoResult EXCEPT !.kind = "invalid_filter_regex"],
                reads |-> 1]
          ELSE
          LET filteredOutput == IF filter # NoFilter
                                THEN FilterLines(allOutput.lines, filter)
                                ELSE allOutput.lines
          IN [result |-> [kind |-> "report", status |-> task.status,
                          command |-> "", pid |-> task.pid,
                          buffered |-> Len(allOutput.lines),
                          filtered |-> filter # NoFilter,
                          matched |-> IF filter # NoFilter
                                      THEN Len(filteredOutput) ELSE 0,
                          output |-> filteredOutput],
              reads |-> 1]

\* BashOutputTool.build(params): validation, then createInvocation.  A
\* rejected request ends with the validation error and is never executed.
FetchBuild(c, id, filter) ==
    /\ req[c].pc = "idle"
    /\ LET r == [IdleReq EXCEPT !.tool = "fetch", !.id = id, !.filter = filter]
           v == BashOutputValidate(id, filter)
       IN req' = [req EXCEPT ![c] =
                    IF v = "ok" THEN [r EXCEPT !.pc = "exec"]
                    ELSE Done(r, [NoResult EXCEPT !.kind = v])]
    /\ UNCHANGED tasks

\* BashOutputInvocation.execute; getConfirmationDetails returned false, so the
\* invocation runs without a prompt.  execute has no await: it is one step.
FetchExecute(c) ==
    /\ req[c].pc = "exec"
    /\ req[c].tool = "fetch"
    /\ LET e == BashOutputExecute(req[c].id, req[c].filter)
       IN req' = [req EXCEPT ![c] =
                    [Done(req[c], e.result) EXCEPT
                       !.reads = e.reads,
                       !.seen = IF HasTask(req[c].id)
                                THEN tasks[req[c].id].status ELSE "absent"]]
    /\ UNCHANGED tasks

(* -------------------------- terminate adapter --------------------------- *)

\* KillShellTool.validateToolParamValues: null ("ok") or the error.
KillShellValidate(id) ==
    IF id \in BlankIds THEN "shell_id_required" ELSE "ok"

\* Variant: no confirmation is ever requested.
GetConfirmationDetailsNever(id) == NoDetails

\* KillShellInvocation.getConfirmationDetails: false (NoDetails) for an
\* unknown task, else the exec confirmation for the task's command.
GetConfirmationDetails(id) ==
    LET found == GetTask(id)
    IN IF ~found.found THEN NoDetails
       ELSE [type |-> "exec", title |-> "Confirm Terminate Background Task",
             command |-> found.task.command, rootCommand |-> "kill"]

\* Variant: only a killed task counts as not running.
NotRunningOnlyKilled(status) == status = "killed"

\* task.status !== 'running'
NotRunning(status) == status # "running"

\* Variant: the test of `killed` is inverted.
KillShellReportInverted(ret, command) ==
    IF ret = "throw" THEN [NoResult EXCEPT !.kind = "error"]
    ELSE IF ret = "true" THEN [NoResult EXCEPT !.kind = "kill_failed"]
    ELSE [NoResult EXCEPT !.kind = "terminated", !.command = command]

\* Variant: success is reported whatever killTask returned.
KillShellReportIgnoresKilled(ret, command) ==
    IF ret = "throw" THEN [NoResult EXCEPT !.kind = "error"]
    ELSE [NoResult EXCEPT !.kind = "terminated", !.command = command]

\* Variant: a rejected killTask is reported like a false one.
KillShellReportSwallowsThrow(ret, command) ==
    IF ~(ret = "true") THEN [NoResult EXCEPT !.kind = "kill_failed"]
    ELSE [NoResult EXCEPT !.kind = "terminated", !.command = command]

\* The result execute builds from what the awaited killTask settled with.
KillShellReport(ret, command) ==
    IF ret = "throw" THEN [NoResult EXCEPT !.kind = "error"]
    ELSE IF ~(ret = "true") THEN [NoResult EXCEPT !.kind = "kill_failed"]
    ELSE [NoResult EXCEPT !.kind = "terminated", !.command = command]

\* KillShellTool.build(params): validation, then createInvocation.
KillBuild(c, id) ==
    /\ req[c].pc = "idle"
    /\ LET r == [IdleReq EXCEPT !.tool = "kill", !.id = id]
           v == KillShellValidate(id)
       IN req' = [req EXCEPT ![c] =
                    IF v = "ok" THEN [r EXCEPT !.pc = "confirm"]
                    ELSE Done(r, [NoResult EXCEPT !.kind = v])]
    /\ UNCHANGED tasks

\* The scheduler asks the invocation whether to confirm: no details, the
\* invocation is scheduled at once; details, the user is prompted.
KillConfirm(c) ==
    /\ req[c].pc = "confirm"
    /\ LET d == GetConfirmationDetails(req[c].id)
       IN req' = [req EXCEPT ![c] =
                    IF d = NoDetails
                    THEN [@ EXCEPT !.pc = "exec", !.confirm = "not_required",
                                   !.existed = HasTask(req[c].id)]
                    ELSE [@ EXCEPT !.pc = "prompt", !.details = d,
                                   !.existed = HasTask(req[c].id)]]
    /\ UNCHANGED tasks

\* The user approves the prompt: the invocation is scheduled.
Approve(c) ==
    /\ req[c].pc = "prompt"
    /\ req' = [req EXCEPT ![c].pc = "exec", ![c].confirm = "approved"]
    /\ UNCHANGED tasks

\* The user declines the prompt: the invocation is cancelled, never executed.
Decline(c) ==
    /\ req[c].pc = "prompt"
    /\ req' = [req EXCEPT ![c] =
                 [Done(@, [NoResult EXCEPT !.kind = "cancelled"])
                    EXCEPT !.confirm = "declined"]]
    /\ UNCHANGED tasks

\* KillShellInvocation.execute up to its await: lookup, status check, and
\* the call of killTask.
KillExecute(c) ==
    /\ req[c].pc = "exec"
    /\ req[c].tool = "kill"
    /\ LET found == GetTask(req[c].id)
       IN req' = [req EXCEPT ![c] =
                    IF ~found.found
                    THEN [Done(@, [NoResult EXCEPT !.kind = "not_found"])
                            EXCEPT !.seen = "absent"]
                    ELSE IF NotRunning(found.task.status)
                    THEN [Done(@, [NoResult EXCEPT
                                     !.kind = "not_running",
                                     !.status = found.task.status])
                            EXCEPT !.seen = found.task.status]
                    ELSE [@ EXCEPT !.pc = "await", !.killCalls = @ + 1,
                                   !.seen = found.task.status]]
    /\ UNCHANGED tasks

\* The awaited killTask settles and execute resumes with its outcome.
KillResume(c) ==
    /\ req[c].pc = "await"
    /\ \E o \in KillTask(req[c].id) :
        /\ tasks' = o.tasks
        /\ req' = [req EXCEPT ![c] =
                     [Done(@, KillShellReport(o.ret, tasks[req[c].id].command))
                        EXCEPT !.killRet = o.ret]]

\* The caller takes the result; it may then issue another request.
Return(c) ==
    /\ req[c].pc = "done"
    /\ req' = [req EXCEPT ![c] = IdleReq]
    /\ UNCHANGED tasks

(* --------------------------- specification ------------------------------ *)

Init ==
    /\ tasks = <<>>
    /\ req = [c \in Callers |-> IdleReq]

Next ==
    \/ \E id \in TaskIds, cmd \in Commands : StartTask(id, cmd)
    \/ \E id \in TaskIds, cmd \in Commands : SpawnFail(id, cmd)
    \/ \E id \in TaskIds, line \in Lines : Capture(id, line)
    \/ \E id \in TaskIds, code \in ExitCodes : ProcessExit(id, code)
    \/ \E id \in TaskIds : ExitWatcher(id)
    \/ \E c \in FetchCallers, id \in ParamIds, f \in Filters : FetchBuild(c, id, f)
    \/ \E c \in Callers : FetchExecute(c)
    \/ \E c \in KillCallers, id \in ParamIds : KillBuild(c, id)
    \/ \E c \in Callers : KillConfirm(c)
    \/ \E c \in Callers : Approve(c)
    \/ \E c \in Callers : Decline(c)
    \/ \E c \in Callers : KillExecute(c)
    \/ \E c \in Callers : KillResume(c)
    \/ \E c \in Callers : Return(c)

Spec == Init /\ [][Next]_vars

(* ------------------------------ claims ---------------------------------- *)

IsPrefix(a, b) == Len(a) <= Len(b) /\ SubSeq(b, 1, Len(a)) = a

\* Caller c's terminate request passes from `exec` to its next position:
\* the synchronous part of execute runs in this step.
KillExecutes(c) ==
    req[c].pc = "exec" /\ req[c].tool = "kill" /\ req'[c].pc # "exec"

\* Caller c's fetch-output request is executed in this step.
FetchExecutes(c) ==
    req[c].pc = "exec" /\ req[c].tool = "fetch" /\ req'[c].pc # "exec"

C1_Kept(c) ==
    (req[c].tool = "kill" /\ req[c].pc = "done" /\ req[c].seen \in Terminal)
        => /\ req[c].result.kind = "not_running"
           /\ req[c].result.status = req[c].seen
           /\ req[c].killCalls = 0
           /\ req[c].killRet = "none"

C1_Step(c) ==
    (KillExecutes(c) /\ HasTask(req[c].id)
        /\ tasks[req[c].id].status \in Terminal)
        => /\ req'[c].pc = "done"
           /\ req'[c].result.kind = "not_running"
           /\ req'[c].killCalls = 0
           /\ tasks' = tasks

\* C1: a terminate operation on a task that exists but is completed, failed
\* or killed returns the 'not running' result, never calls killTask, and
\* leaves the task's status, exit code and output buffer as they were.
C1_TerminalNoOp ==
    /\ [](\A c \in Callers : C1_Kept(c))
    /\ [][\A c \in Callers : C1_Step(c)]_vars

\* A terminate request found its task completed and answered 'not running'.
C1_Witness ==
    \E c \in Callers :
        /\ req[c].tool = "kill" /\ req[c].pc = "done"
        /\ req[c].seen = "completed"
        /\ req[c].result.kind = "not_running"
        /\ tasks[req[c].id].status = "completed"
        /\ tasks[req[c].id].output # <<>>

C2_Kept(c) ==
    (req[c].tool = "kill"
        /\ (req[c].result.kind = "terminated" \/ req[c].killRet = "true"))
        => /\ HasTask(req[c].id)
           /\ tasks[req[c].id].status = "killed"
           /\ tasks[req[c].id].exitCode = <<>>
           /\ req[c].result.kind = "terminated"
           /\ req[c].killRet = "true"

C2_Step(t) ==
    tasks[t].status = "killed"
        => t \in DOMAIN tasks' /\ tasks'[t].status = "killed"

\* C2: once killTask returned true and the terminate operation reports
\* 'Successfully terminated', the task's status is killed and stays killed,
\* also after the end of the process has been observed; a natural exit
\* between the adapter's check and the settled killTask never yields a
\* reported success with another status.
C2_SuccessMeansKilled ==
    /\ [](\A c \in Callers : C2_Kept(c))
    /\ [][\A t \in DOMAIN tasks : C2_Step(t)]_vars

\* A kill succeeded and the exit watcher has since observed the process end;
\* the other caller's kill lost the race against it.
C2_Witness ==
    \E c \in Callers :
        /\ req[c].result.kind = "terminated"
        /\ tasks[req[c].id].status = "killed"
        /\ tasks[req[c].id].osExit = <<>>
        /\ \E d \in Callers \ {c} : req[d].result.kind = "kill_failed"

KillsOn(t) == {c \in Callers : req[c].tool = "kill" /\ req[c].id = t}

Succeeded(t) == {c \in KillsOn(t) : req[c].result.kind = "terminated"}

\* Every recorded terminate request on t called killTask, and the call settled
\* without rejecting: the requests all passed the `running` check.
RacedKills(t) ==
    /\ Cardinality(KillsOn(t)) >= 2
    /\ \A c \in KillsOn(t) :
        req[c].pc = "done" /\ req[c].killCalls = 1 /\ req[c].killRet # "throw"

\* The process of t did not end on its own.
NoNaturalExit(t) ==
    tasks[t].status = "killed" \/ (tasks[t].status = "running" /\ tasks[t].alive)

BadFilter(c) ==
    req[c].tool = "fetch" /\ req[c].id \notin BlankIds /\ ~Compiles(req[c].filter)

C4_Kept(c) ==
    BadFilter(c)
        => /\ req[c].pc = "done"
           /\ req[c].result.kind \in {"invalid_regex_pattern",
                                      "invalid_filter_regex"}
           /\ req[c].reads = 0

C4_Step(c) ==
    (req[c].pc = "idle" /\ req'[c].tool = "fetch" /\ ~Compiles(req'[c].filter))
        => tasks' = tasks

C5_ConfirmationGatesKill ==
    \A c \in Callers :
        req[c].tool = "kill" =>
            /\ (req[c].existed /\ req[c].pc # "confirm")
                => /\ req[c].details.type = "exec"
                   /\ req[c].details.rootCommand = "kill"
                   /\ req[c].details.command = tasks[req[c].id].command
                   /\ req[c].confirm \in {"none", "approved", "declined"}
            /\ req[c].confirm = "none" => req[c].pc \in {"confirm", "prompt", "done"}
            /\ req[c].pc = "prompt" => req[c].killCalls = 0
            /\ req[c].confirm = "declined"
                => /\ req[c].pc = "done"
                   /\ req[c].killCalls = 0
                   /\ req[c].killRet = "none"
                   /\ req[c].seen = "none"
                   /\ req[c].result.kind = "cancelled"
            /\ req[c].killCalls > 0
                => req[c].confirm \in {"approved", "not_required"}

\* A declined terminate request; its task is still running.
C5_Witness ==
    \E c \in Callers :
        /\ req[c].tool = "kill"
        /\ req[c].confirm = "declined"
        /\ req[c].details.rootCommand = "kill"
        /\ tasks[req[c].id].status = "running"
        /\ tasks[req[c].id].alive

\* Positions of buf whose line the pattern matches.
MatchingAt(buf, filter) == {i \in 1..Len(buf) : RegexTest(filter, buf[i])}

\* out holds exactly the matching lines of buf, in buffer order: its k-th
\* line is the line at the k-th matching position.
IsSelection(out, buf, filter) ==
    /\ Len(out) = Cardinality(MatchingAt(buf, filter))
    /\ \A i \in MatchingAt(buf, filter) :
        out[Cardinality({j \in MatchingAt(buf, filter) : j <= i})] = buf[i]

C6_Step(c) ==
    (FetchExecutes(c) /\ HasTask(req[c].id) /\ req[c].filter # NoFilter)
        => LET buf == tasks[req[c].id].output
               res == req'[c].result
           IN /\ res.kind = "report"
              /\ res.filtered
              /\ IsSelection(res.output, buf, req[c].filter)
              /\ res.matched = Len(res.output)
              /\ res.buffered = Len(buf)
              /\ (buf = <<alpha, beta, gamma>> /\ req[c].filter = TrailingA)
                    => /\ res.output = <<alpha, beta, gamma>>
                       /\ res.matched = 3
                       /\ res.buffered = 3
              /\ (buf = <<alpha, beta, gamma>> /\ req[c].filter = GroupADot)
                    => /\ res.output = <<alpha, gamma>>
                       /\ res.matched = 2
                       /\ res.buffered = 3

\* C6 (amended): with a valid filter, fetch-output returns exactly the
\* buffered lines that match, in buffer order, none added, dropped or
\* duplicated; 'Matched lines' is the number of returned lines and 'Lines
\* buffered' the number of lines in the buffer.  [alpha, beta, gamma] with a
\* pattern matching a trailing 'a' gives all three lines, 3 matched of 3
\* buffered, since beta ends in 'a' too.
C6_FilterSelectsMatches == [][\A c \in Callers : C6_Step(c)]_vars

\* a$ over [alpha, beta, gamma]: every line matches.
C6_Witness ==
    \E c \in Callers :
        /\ req[c].tool = "fetch" /\ req[c].pc = "done"
        /\ req[c].filter = TrailingA
        /\ req[c].result.kind = "report"
        /\ req[c].result.buffered = 3
        /\ req[c].result.matched = 3
        /\ req[c].result.output = <<alpha, beta, gamma>>
        /\ tasks[req[c].id].output = <<alpha, beta, gamma>>

\* C6 as stated: the returned lines are the matching lines in order, the
\* counts are right, and a$ over [alpha, beta, gamma] gives [alpha, gamma],
\* 2 matched of 3 buffered.
C6_AsStated ==
    \A c \in Callers :
        (req[c].tool = "fetch" /\ req[c].pc = "done"
            /\ req[c].result.kind = "report" /\ req[c].filter # NoFilter)
            => LET res == req[c].result
                   buf == SubSeq(tasks[req[c].id].output, 1, res.buffered)
               IN /\ IsSelection(res.output, buf, req[c].filter)
                  /\ res.matched = Len(res.output)
                  /\ (buf = <<alpha, beta, gamma>> /\ req[c].filter = TrailingA)
                        => /\ res.output = <<alpha, gamma>>
                           /\ res.matched = 2
                           /\ res.buffered = 3

\* A completed unfiltered fetch-output: a full read of the buffer.
FullRead(c) ==
    /\ req[c].tool = "fetch" /\ req[c].pc = "done"
    /\ req[c].filter = NoFilter
    /\ req[c].result.kind = "report"

C7_Kept(c) ==
    FullRead(c)
        => /\ HasTask(req[c].id)
           /\ GetOutput(req[c].id, 0).found
           /\ IsPrefix(req[c].result.output, GetOutput(req[c].id, 0).lines)
           /\ req[c].result.buffered = Len(req[c].result.output)

C7_Step(t) ==
    /\ t \in DOMAIN tasks'
    /\ IsPrefix(tasks[t].output, tasks'[t].output)

\* C7: the output of a full read is a prefix of the output of any later full
\* read of the same task, whatever appends, kills and exits happen between.
C7_ReadsArePrefixes ==
    /\ [](\A c \in Callers : C7_Kept(c))
    /\ [][\A t \in DOMAIN tasks : C7_Step(t)]_vars

\* A full read taken while the task ran; since then the task was killed and
\* more output arrived.
C7_Witness ==
    \E c \in Callers :
        /\ FullRead(c)
        /\ req[c].result.status = "running"
        /\ req[c].result.buffered >= 1
        /\ tasks[req[c].id].status = "killed"
        /\ Len(tasks[req[c].id].output) > req[c].result.buffered

C8_Step(t) ==
    /\ t \in DOMAIN tasks'
    /\ tasks[t].status \in Terminal => tasks'[t].status = tasks[t].status
    /\ tasks'[t].status # tasks[t].status
        => tasks[t].status = "running" /\ tasks'[t].status \in Terminal

\* C8: every task has one of the four statuses; a status changes only from
\* running to a terminal status and a terminal status never changes.
C8_StatusMonotone ==
    /\ [](\A t \in DOMAIN tasks : tasks[t].status \in Statuses)
    /\ [][\A t \in DOMAIN tasks : C8_Step(t)]_vars

\* A killed task whose process end the exit watcher has observed, and on
\* which a later terminate request was answered 'not running'.
C8_Witness ==
    \E t \in DOMAIN tasks :
        /\ tasks[t].status = "killed"
        /\ tasks[t].osExit = <<>>
        /\ \E c \in Callers :
            req[c].id = t /\ req[c].result.kind = "not_running"

KillResults == {"not_found", "not_running", "terminated", "kill_failed", "error"}

\* C9: an executed terminate operation ends with one ordinary result:
\* 'not found' iff no task has the id, 'not running' iff the task is not
\* running, 'terminated' (with the command) iff it ran and killTask returned
\* true, 'failed to kill' iff it ran and killTask returned false, 'error' iff
\* killTask threw; killTask is called at most once, only in the last three.
C9_TerminateResult ==
    \A c \in Callers :
        (req[c].tool = "kill" /\ req[c].seen # "none") =>
            LET r == req[c]
                k == r.result.kind
            IN /\ r.pc \in {"await", "done"}
               /\ r.killCalls \in {0, 1}
               /\ r.pc = "await"
                    => r.seen = "running" /\ r.killCalls = 1 /\ k = "none"
               /\ r.pc = "done" =>
                    /\ k \in KillResults
                    /\ k = "not_found" <=> r.seen = "absent"
                    /\ k = "not_running" <=> r.seen \in Terminal
                    /\ k = "terminated"
                        <=> (r.seen = "running" /\ r.killRet = "true")
                    /\ k = "kill_failed"
                        <=> (r.seen = "running" /\ r.killRet = "false")
                    /\ k = "error" <=> r.killRet = "throw"
                    /\ r.killCalls = 1
                        <=> k \in {"terminated", "kill_failed", "error"}
                    /\ r.killRet # "none" <=> r.killCalls = 1
                    /\ k = "terminated"
                        => r.result.command = tasks[r.id].command
                    /\ k = "not_running" => r.result.status = r.seen

\* killTask rejected: the request ends with the error result, the task runs on.
C9_Witness ==
    \E c \in Callers :
        /\ req[c].tool = "kill" /\ req[c].pc = "done"
        /\ req[c].killRet = "throw"
        /\ req[c].result.kind = "error"
        /\ tasks[req[c].id].status = "running"

C10_Kept(c) ==
    (req[c].tool = "fetch" /\ req[c].pc = "done" /\ req[c].seen # "none")
        => /\ req[c].result.kind = "not_found" <=> req[c].seen = "absent"
           /\ req[c].seen # "absent" => req[c].result.kind = "report"
           /\ req[c].result.kind # "read_failed"

C10_Step(c) ==
    FetchExecutes(c)
        => LET res == req'[c].result
           IN IF HasTask(req[c].id)
              THEN /\ res.kind = "report"
                   /\ res.buffered = Len(tasks[req[c].id].output)
                   /\ tasks[req[c].id].output = <<>> => res.output = <<>>
              ELSE res.kind = "not_found"

\* A read at or past the end of the buffer gives an empty sequence.
C10_PastEnd(t) ==
    \A n \in Len(tasks[t].output)..(Len(tasks[t].output) + 1) :
        GetOutput(t, n) = [found |-> TRUE, lines |-> <<>>]

\* C10: fetch-output returns 'not found' iff no task has the id; for an
\* existing task, also one with an empty buffer, it returns the report with
\* an empty output and the right line count, never 'not found' and never
\* 'failed to retrieve output'.
C10_NoTaskVersusNoOutput ==
    /\ [](\A c \in Callers : C10_Kept(c))
    /\ [](\A t \in DOMAIN tasks : C10_PastEnd(t))
    /\ [][\A c \in Callers : C10_Step(c)]_vars

\* A report for a running task that has printed nothing yet.
C10_Witness ==
    \E c \in Callers :
        /\ req[c].tool = "fetch" /\ req[c].pc = "done"
        /\ req[c].seen = "running"
        /\ req[c].result.kind = "report"
        /\ req[c].result.buffered = 0
        /\ req[c].result.output = <<>>

====
